---- MODULE Spec2Model ----
(***************************************************************************)
(* Certificate generation: the batch orchestrators of juststart.py (the    *)
(* simple variant: name only, PNG only) and starting_ending.py (the full   *)
(* variant: name and two dates, PNG and PDF), and the text placement       *)
(* arithmetic both use.                                                    *)
(*                                                                         *)
(* Python strings are modelled as sequences of tokens (a token is one      *)
(* character for participant names, a longer fragment for fixed texts), so *)
(* that str(), title() and the f-strings are computed, not assumed.        *)
(***************************************************************************)
EXTENDS Integers, Sequences, FiniteSets, TLC

VARIABLES
    variant,        \* "simple" (juststart.py) or "full" (starting_ending.py)
    participants,   \* does the participants file exist on disk
    template,       \* the template file: "missing", "undecodable" or "ok"
    columns,        \* the columns of the participant table
    rows,           \* the rows of the participant table, in file order
    pc,             \* "start", "loop", "done" (stats returned), "exit" (sys.exit)
    exit_code,      \* the process exit status once pc = "exit", else 0
    stats,          \* the stats dict of generate_certificates_batch
    index,          \* number of rows the for loop has taken from iterrows()
    dir_created,    \* has ensure_output_directory run
    table_loaded,   \* has pd.read_excel run
    files,          \* output directory: file path -> content
    calls,          \* one record per loop iteration, in order
    lay,            \* inputs and result of the text placement computation
    font_config,    \* config.py: the FontConfig instance
    validation      \* what validate_configuration did: "none" until called

vars == <<variant, participants, template, columns, rows, pc, exit_code,
          stats, index, dir_created, table_loaded, files, calls, lay,
          font_config, validation>>

batchVars == <<variant, participants, template, columns, rows, pc, exit_code,
               stats, index, dir_created, table_loaded, files, calls>>

----------------------------------------------------------------------------
(* Bounds *)

MaxRows == 2
MaxOffset == 2
MaxCanvas == 2
MaxExtent == 3

----------------------------------------------------------------------------
(* Configuration constants *)

INTERN_NAME_X == 100
INTERN_NAME_Y == 78
DATE_FROM_X == 130
DATE_Y == -80
DATE_TO_X == 535
COORDINATE_X_ADJUSTMENT == 7
COORDINATE_Y_ADJUSTMENT == 78

CERTIFICATE_PREFIX == <<"Internship_Completion_Certificate">>
OUTPUT_DIRECTORY == <<"generated_certificates/">>

----------------------------------------------------------------------------
(* Strings *)

LowerChars == <<"a", "b", "n">>
UpperChars == <<"A", "B", "N">>

IsLower(c) == \E k \in 1..Len(LowerChars) : LowerChars[k] = c
IsUpper(c) == \E k \in 1..Len(UpperChars) : UpperChars[k] = c
IsCased(c) == IsLower(c) \/ IsUpper(c)

ToUpper(c) ==
    IF IsLower(c)
    THEN UpperChars[CHOOSE k \in 1..Len(LowerChars) : LowerChars[k] = c]
    ELSE c

ToLower(c) ==
    IF IsUpper(c)
    THEN LowerChars[CHOOSE k \in 1..Len(UpperChars) : UpperChars[k] = c]
    ELSE c

\* str.title(): a cased character is upper-cased when it follows an uncased
\* character (or starts the string) and lower-cased otherwise.
title(s) ==
    [i \in 1..Len(s) |->
        IF i = 1 \/ ~IsCased(s[i - 1]) THEN ToUpper(s[i]) ELSE ToLower(s[i])]

\* A table cell: a string, or NaN for an empty cell.
StrCell(s) == [kind |-> "str", val |-> s]
NaN == [kind |-> "nan", val |-> <<>>]
None == [kind |-> "none", val |-> <<>>]

\* str(cell): str(float('nan')) is the three characters n, a, n.
str(v) ==
    IF v.kind = "nan" THEN <<"n", "a", "n">>
    ELSE IF v.kind = "none" THEN <<"N", "o", "n", "e">>
    ELSE v.val

\* os.path.join(output_dir, name) with an output_dir ending in "/".
path_join(dir, name) == dir \o name

----------------------------------------------------------------------------
(* Text placement *)

\* int(n / 2) for an integer n: true division, then truncation toward zero.
IntOfHalf(n) == IF n >= 0 THEN n \div 2 ELSE -((-n) \div 2)

\* juststart.py: int((img_width - text_width) / 2 + x_adjustment),
\*               int((img_height + text_height) / 2 - y_adjustment)
calculate_centered_position(img_width, img_height, text_width, text_height, x_adjustment, y_adjustment) ==
    <<IntOfHalf((img_width - text_width) + 2 * x_adjustment),
      IntOfHalf((img_height + text_height) - 2 * y_adjustment)>>

\* starting_ending.py: the same computation inside draw_text_on_image.
draw_text_position(img_width, img_height, text_width, text_height, x_offset, y_offset) ==
    <<IntOfHalf((img_width - text_width) + 2 * x_offset),
      IntOfHalf((img_height + text_height) - 2 * y_offset)>>

----------------------------------------------------------------------------
(* The participant table *)

DateCols == {"from", "s_month", "s_year", "to", "e_month", "e_year"}

NameValues ==
    { StrCell(<<"a", "b">>), StrCell(<<"A", "B">>),
      StrCell(<<"b", " ", "a">>), NaN }

DateValues ==
    { [from |-> StrCell(<<"25">>), s_month |-> StrCell(<<"Mar">>),
       s_year |-> StrCell(<<"22">>), to |-> StrCell(<<"14">>),
       e_month |-> StrCell(<<"Apr">>), e_year |-> StrCell(<<"22">>)],
      [from |-> StrCell(<<"1">>), s_month |-> StrCell(<<"Jan">>),
       s_year |-> StrCell(<<"21">>), to |-> NaN,
       e_month |-> NaN, e_year |-> NaN] }

ColumnSets == { {"Name"}, {"Name"} \cup DateCols, DateCols }

\* The rows a table with the given columns can hold.
RowsOf(cols) ==
    IF cols = {"Name"} THEN { [Name |-> n] : n \in NameValues }
    ELSE IF cols = DateCols THEN DateValues
    ELSE { [Name |-> n, from |-> d.from, s_month |-> d.s_month,
            s_year |-> d.s_year, to |-> d.to, e_month |-> d.e_month,
            e_year |-> d.e_year] : n \in NameValues, d \in DateValues }

SeqsUpTo(S, n) == UNION { [1..k -> S] : k \in 0..n }

----------------------------------------------------------------------------
(* Images and files *)

\* The raster cv2.imread decodes from the template: no text drawn on it.
TemplateImage == <<>>

\* cv2.putText: the text is added to the working image.
putText(img, text, font_size, x_offset, y_offset) ==
    Append(img, [text |-> text, font_size |-> font_size,
                 x_offset |-> x_offset, y_offset |-> y_offset])

PngFile(img) == [format |-> "png", image |-> img]

\* Variant of PdfFile that renders a blank page instead of wrapping the PNG.
PdfFile_blank(png) == [format |-> "pdf", image |-> <<>>]

PdfFile(png) == [format |-> "pdf", image |-> png.image]
EmptyFile == [format |-> "empty", image |-> <<>>]

\* Writing a file creates it or replaces its content.
WriteFile(fs, path, content) ==
    [p \in DOMAIN fs \cup {path} |-> IF p = path THEN content ELSE fs[p]]

\* What the file system does to one row's writes.
\*   png: "ok", "false" (cv2.imwrite returns False), "raise" (cv2.error)
\*   pdf: "ok", "open_fail" (open() raises), "convert_fail" (img2pdf raises)
\*   "none": the write is not reached
NoIO == [png |-> "none", pdf |-> "none"]
SimpleIO == { [png |-> p, pdf |-> "none"] : p \in {"ok", "false", "raise"} }
FullIO ==
    { [png |-> "ok", pdf |-> q] : q \in {"ok", "open_fail", "convert_fail"} }
    \cup { [png |-> p, pdf |-> "none"] : p \in {"false", "raise"} }

----------------------------------------------------------------------------
(* Exceptions: what a try body did *)

Raise(exc, arg, fs, texts) ==
    [exc |-> exc, arg |-> arg, value |-> <<>>, files |-> fs, texts |-> texts]
Return(value, fs, texts) ==
    [exc |-> "none", arg |-> <<>>, value |-> value, files |-> fs,
     texts |-> texts]

TextsOf(img) == [k \in 1..Len(img) |-> img[k].text]

----------------------------------------------------------------------------
(* juststart.py *)

FONT_SIZE == 38              \* 3.8, in tenths

\* Variant of validate_file_exists that never raises.
validate_file_exists_always(exists) == "True"

\* validate_file_exists: True, or raises FileNotFoundError.
validate_file_exists(exists) == IF exists THEN "True" ELSE "FileNotFoundError"

\* Variant of simple_certificate_body that draws on a raster shared between
\* rows (the image last written) instead of a fresh decode of the template.
simple_certificate_body_shared(participant_name, tmpl, output_path, fs, io) ==
    IF tmpl # "ok"
    THEN Raise("ValueError", <<"Failed to load template">>, fs, <<>>)
    ELSE
        LET shared == IF DOMAIN fs = {} THEN TemplateImage
                      ELSE fs[CHOOSE p \in DOMAIN fs : TRUE].image
            img == putText(shared, title(participant_name), FONT_SIZE,
                           COORDINATE_X_ADJUSTMENT, COORDINATE_Y_ADJUSTMENT)
        IN  IF io.png = "false"
            THEN Raise("IOError", <<"Failed to save certificate">>, fs,
                       TextsOf(img))
            ELSE IF io.png # "ok"
            THEN Raise("cv2.error", <<"imwrite">>, fs, TextsOf(img))
            ELSE Return(<<>>, WriteFile(fs, output_path, PngFile(img)),
                        TextsOf(img))

\* The try body of generate_simple_certificate.
simple_certificate_body(participant_name, tmpl, output_path, fs, io) ==
    IF tmpl # "ok"
    THEN Raise("ValueError", <<"Failed to load template">>, fs, <<>>)
    ELSE
        LET formatted_name == title(participant_name)
            img == putText(TemplateImage, formatted_name, FONT_SIZE,
                           COORDINATE_X_ADJUSTMENT, COORDINATE_Y_ADJUSTMENT)
        IN  IF io.png = "false"
            THEN Raise("IOError", <<"Failed to save certificate">>, fs,
                       TextsOf(img))
            ELSE IF io.png # "ok"
            THEN Raise("cv2.error", <<"imwrite">>, fs, TextsOf(img))
            ELSE Return(<<>>, WriteFile(fs, output_path, PngFile(img)),
                        TextsOf(img))

\* generate_simple_certificate: True, or False after `except Exception`.
generate_simple_certificate(participant_name, tmpl, output_path, fs, io) ==
    LET b == simple_certificate_body(participant_name, tmpl, output_path, fs, io)
    IN  [success |-> b.exc = "none", result |-> <<>>, files |-> b.files,
         texts |-> b.texts, raised |-> FALSE]

\* One iteration of the simple loop: the try body, `except KeyError` and
\* `except Exception`, each of which counts the row as failed.
simple_row(row, tmpl, output_dir, fs, io) ==
    IF "Name" \notin DOMAIN row
    THEN [success |-> FALSE, result |-> <<>>, files |-> fs, texts |-> <<>>,
          raised |-> FALSE]
    ELSE
        LET participant_name == str(row.Name)
            certificate_filename == participant_name \o <<".png">>
            output_path == path_join(output_dir, certificate_filename)
        IN  generate_simple_certificate(participant_name, tmpl, output_path,
                                        fs, io)

\* Variant of UpdateStatsSimple that does not count a failed row.
UpdateStatsSimple_uncounted(st, success) ==
    IF success THEN [st EXCEPT !.success = @ + 1] ELSE st

\* stats["success"] += 1 / stats["failed"] += 1
UpdateStatsSimple(st, success) ==
    IF success THEN [st EXCEPT !.success = @ + 1]
    ELSE [st EXCEPT !.failed = @ + 1]

----------------------------------------------------------------------------
(* starting_ending.py *)

INTERN_NAME_FONT_SIZE == 38  \* 3.8, in tenths
DATE_FONT_SIZE == 15         \* 1.5, in tenths

\* format_date_string: the three components, or a fixed text when one is None.
\* (Its only call sites are commented out.)
format_date_string(day, month, year) ==
    IF day.kind # "none" /\ month.kind # "none" /\ year.kind # "none"
    THEN str(day) \o <<" ">> \o str(month) \o <<" ">> \o str(year)
    ELSE <<"Date Not Available">>

\* Variant of from_date with the commented-out call restored.
from_date_of_row(row) ==
    IF "from" \in DOMAIN row
    THEN format_date_string(row.from, row.s_month, row.s_year)
    ELSE <<"Date Not Available">>

\* from_date = '25 Mar 22' and to_date = '14 Apr 22': the row is not read.
from_date(row) == <<"25 Mar 22">>
to_date(row) == <<"14 Apr 22">>

\* The try body of generate_certificate.
certificate_body(row, tmpl, output_dir, fs, io) ==
    IF tmpl # "ok"
    THEN Raise("ValueError", <<"Failed to load template">>, fs, <<>>)
    ELSE IF "Name" \notin DOMAIN row
    THEN Raise("KeyError", <<"'Name'">>, fs, <<>>)
    ELSE
        LET participant_name == title(str(row.Name))
            img1 == putText(TemplateImage, participant_name,
                            INTERN_NAME_FONT_SIZE, INTERN_NAME_X, INTERN_NAME_Y)
            img2 == putText(img1, from_date(row), DATE_FONT_SIZE,
                            DATE_FROM_X, DATE_Y)
            img3 == putText(img2, to_date(row), DATE_FONT_SIZE,
                            DATE_TO_X, DATE_Y)
            certificate_filename ==
                CERTIFICATE_PREFIX \o <<"_">> \o participant_name
            png_path == path_join(output_dir, certificate_filename \o <<".png">>)
            pdf_path == path_join(output_dir, certificate_filename \o <<".pdf">>)
            fs1 == WriteFile(fs, png_path, PngFile(img3))
        IN  IF io.png = "false"
            THEN Raise("IOError", <<"Failed to save PNG">>, fs, TextsOf(img3))
            ELSE IF io.png # "ok"
            THEN Raise("cv2.error", <<"imwrite">>, fs, TextsOf(img3))
            ELSE IF io.pdf = "open_fail"
            THEN Raise("OSError", <<"open">>, fs1, TextsOf(img3))
            ELSE IF io.pdf # "ok"
            THEN Raise("ImageOpenError", <<"img2pdf">>,
                       WriteFile(fs1, pdf_path, EmptyFile), TextsOf(img3))
            ELSE Return(certificate_filename,
                        WriteFile(fs1, pdf_path, PdfFile(fs1[png_path])),
                        TextsOf(img3))

\* Variant of generate_certificate without the `except Exception` clause: only
\* KeyError is handled, anything else leaves the function.
generate_certificate_keyerror_only(row, tmpl, output_dir, fs, io) ==
    LET b == certificate_body(row, tmpl, output_dir, fs, io)
    IN  IF b.exc = "none"
        THEN [success |-> TRUE, result |-> b.value, files |-> b.files,
              texts |-> b.texts, raised |-> FALSE]
        ELSE IF b.exc = "KeyError"
        THEN [success |-> FALSE,
              result |-> <<"Missing required column in data: ">> \o b.arg,
              files |-> b.files, texts |-> b.texts, raised |-> FALSE]
        ELSE [success |-> FALSE, result |-> b.arg, files |-> b.files,
              texts |-> b.texts, raised |-> TRUE]

\* generate_certificate: (True, certificate_filename), or (False, error_msg)
\* after `except KeyError` or `except Exception`.
generate_certificate(row, tmpl, output_dir, fs, io) ==
    LET b == certificate_body(row, tmpl, output_dir, fs, io)
    IN  IF b.exc = "none"
        THEN [success |-> TRUE, result |-> b.value, files |-> b.files,
              texts |-> b.texts, raised |-> FALSE]
        ELSE IF b.exc = "KeyError"
        THEN [success |-> FALSE,
              result |-> <<"Missing required column in data: ">> \o b.arg,
              files |-> b.files, texts |-> b.texts, raised |-> FALSE]
        ELSE [success |-> FALSE,
              result |-> <<"Error generating certificate: ">> \o b.arg,
              files |-> b.files, texts |-> b.texts, raised |-> FALSE]

\* stats["success"] += 1, or stats["failed"] += 1 and
\* stats["errors"].append(f"Row {index + 1}: {result}")
UpdateStatsFull(st, idx, success, result) ==
    IF success THEN [st EXCEPT !.success = @ + 1]
    ELSE [st EXCEPT !.failed = @ + 1,
                    !.errors = Append(@, [row |-> idx + 1, msg |-> result])]

----------------------------------------------------------------------------
(* config.py *)

\* FontConfig(): font sizes in tenths.
FontConfigDefault ==
    [name_font_size |-> 38, date_font_size |-> 15,
     font_color_bgr |-> <<68, 102, 253>>, font_thickness |-> 10]

\* validate_configuration: True, or raises ValueError.
validate_configuration(fc) ==
    IF fc.name_font_size <= 0 \/ fc.date_font_size <= 0
    THEN "ValueError"
    ELSE IF \E k \in 1..Len(fc.font_color_bgr) :
                ~(0 <= fc.font_color_bgr[k] /\ fc.font_color_bgr[k] <= 255)
    THEN "ValueError"
    ELSE IF fc.font_thickness <= 0
    THEN "ValueError"
    ELSE "True"

----------------------------------------------------------------------------
(* generate_certificates_batch *)

StatsSimple == [total |-> 0, success |-> 0, failed |-> 0]
StatsFull == [total |-> 0, success |-> 0, failed |-> 0, errors |-> <<>>]

LayIdle ==
    [fn |-> "none", img_width |-> 0, img_height |-> 0, text_width |-> 0,
     text_height |-> 0, x_offset |-> 0, y_offset |-> 0, pos |-> <<0, 0>>,
     prev |-> <<0, 0>>, shift |-> <<0, 0>>]

\* The state at the call of generate_certificates_batch: stats is built before
\* the try block; the files on disk are whatever the user has put there.
Init ==
    /\ variant \in {"simple", "full"}
    /\ participants \in BOOLEAN
    /\ template \in {"missing", "undecodable", "ok"}
    /\ columns \in (IF participants THEN ColumnSets ELSE {{}})
    /\ rows \in (IF participants THEN SeqsUpTo(RowsOf(columns), MaxRows)
                                ELSE {<<>>})
    /\ pc = "start"
    /\ exit_code = 0
    /\ stats = (IF variant = "simple" THEN StatsSimple ELSE StatsFull)
    /\ index = 0
    /\ dir_created = FALSE
    /\ table_loaded = FALSE
    /\ files = <<>>
    /\ calls = <<>>
    /\ lay = LayIdle
    /\ font_config = FontConfigDefault
    /\ validation = "none"

\* sys.exit(1) from one of the outer except clauses.
SysExit ==
    /\ pc' = "exit"
    /\ exit_code' = 1

\* Both variants, up to pd.read_excel and stats["total"] = len(participants_df):
\* validate_file_exists twice, ensure_output_directory, read_excel.
\* FileNotFoundError is caught by the outer handler, which exits.
FilesValidated ==
    /\ validate_file_exists(participants) = "True"
    /\ validate_file_exists(template # "missing") = "True"

\* juststart.py, from the call to the first loop iteration.
StartSimple ==
    /\ variant = "simple"
    /\ pc = "start"
    /\ IF ~FilesValidated
       THEN /\ SysExit
            /\ UNCHANGED <<stats, dir_created, table_loaded>>
       ELSE /\ dir_created' = TRUE
            /\ table_loaded' = TRUE
            /\ stats' = [stats EXCEPT !.total = Len(rows)]
            /\ IF "Name" \notin columns
               THEN SysExit
               ELSE pc' = "loop" /\ UNCHANGED exit_code
    /\ UNCHANGED <<variant, participants, template, columns, rows, index,
                   files, calls, lay,
                   font_config, validation>>

\* starting_ending.py, from the call to the first loop iteration: the columns
\* are not checked.
StartFull ==
    /\ variant = "full"
    /\ pc = "start"
    /\ IF ~FilesValidated
       THEN /\ SysExit
            /\ UNCHANGED <<stats, dir_created, table_loaded>>
       ELSE /\ dir_created' = TRUE
            /\ table_loaded' = TRUE
            /\ stats' = [stats EXCEPT !.total = Len(rows)]
            /\ pc' = "loop"
            /\ UNCHANGED exit_code
    /\ UNCHANGED <<variant, participants, template, columns, rows, index,
                   files, calls, lay,
                   font_config, validation>>

\* The file system outcomes a row can meet: none when no write is reached.
RowIO(row, all) ==
    IF template # "ok" \/ "Name" \notin DOMAIN row THEN {NoIO} ELSE all

CallRecord(i, io, r) ==
    [row |-> i, io |-> io, success |-> r.success, result |-> r.result,
     texts |-> r.texts]

\* juststart.py: one iteration of `for index, row in participants_df.iterrows()`.
RowSimple ==
    /\ variant = "simple"
    /\ pc = "loop"
    /\ index < Len(rows)
    /\ \E io \in RowIO(rows[index + 1], SimpleIO) :
         LET r == simple_row(rows[index + 1], template, OUTPUT_DIRECTORY,
                             files, io)
         IN  /\ files' = r.files
             /\ calls' = Append(calls, CallRecord(index + 1, io, r))
             /\ IF r.raised
                THEN SysExit /\ UNCHANGED stats
                ELSE /\ stats' = UpdateStatsSimple(stats, r.success)
                     /\ UNCHANGED <<pc, exit_code>>
    /\ index' = index + 1
    /\ UNCHANGED <<variant, participants, template, columns, rows,
                   dir_created, table_loaded, lay,
                   font_config, validation>>

\* starting_ending.py: one iteration of the loop.
RowFull ==
    /\ variant = "full"
    /\ pc = "loop"
    /\ index < Len(rows)
    /\ \E io \in RowIO(rows[index + 1], FullIO) :
         LET r == generate_certificate(rows[index + 1], template,
                                       OUTPUT_DIRECTORY, files, io)
         IN  /\ files' = r.files
             /\ calls' = Append(calls, CallRecord(index + 1, io, r))
             /\ IF r.raised
                THEN SysExit /\ UNCHANGED stats
                ELSE /\ stats' = UpdateStatsFull(stats, index, r.success,
                                                 r.result)
                     /\ UNCHANGED <<pc, exit_code>>
    /\ index' = index + 1
    /\ UNCHANGED <<variant, participants, template, columns, rows,
                   dir_created, table_loaded, lay,
                   font_config, validation>>

\* The loop is exhausted: the summary is logged and stats is returned.
ReturnStats ==
    /\ pc = "loop"
    /\ index = Len(rows)
    /\ pc' = "done"
    /\ UNCHANGED <<variant, participants, template, columns, rows, exit_code,
                   stats, index, dir_created, table_loaded, files, calls, lay,
                   font_config, validation>>

Next == StartSimple \/ StartFull \/ RowSimple \/ RowFull \/ ReturnStats

Spec == Init /\ [][Next]_vars

----------------------------------------------------------------------------
(* The text placement on its own: inputs from bounded sets, then the call,  *)
(* then the same call with one offset moved by k.                           *)

CanvasWidths == 1..MaxCanvas \cup {1000}
CanvasHeights == 1..MaxCanvas \cup {400}
TextWidths == 0..MaxExtent \cup {300}
TextHeights == 0..MaxExtent \cup {60}
OffsetsX == -MaxOffset..MaxOffset \cup {COORDINATE_X_ADJUSTMENT}
OffsetsY == -MaxOffset..MaxOffset \cup {COORDINATE_Y_ADJUSTMENT}
Shifts == (-MaxOffset..MaxOffset) \ {0}

InitLayout ==
    /\ variant = "simple"
    /\ participants = FALSE
    /\ template = "missing"
    /\ columns = {}
    /\ rows = <<>>
    /\ pc = "idle"
    /\ exit_code = 0
    /\ stats = StatsSimple
    /\ index = 0
    /\ dir_created = FALSE
    /\ table_loaded = FALSE
    /\ files = <<>>
    /\ calls = <<>>
    /\ font_config = FontConfigDefault
    /\ validation = "none"
    /\ \E W \in CanvasWidths, H \in CanvasHeights, w \in TextWidths,
          h \in TextHeights, dx \in OffsetsX, dy \in OffsetsY :
         lay = [LayIdle EXCEPT !.img_width = W, !.img_height = H,
                               !.text_width = w, !.text_height = h,
                               !.x_offset = dx, !.y_offset = dy]

\* The position the variant fn computes for the inputs held in l.
Place(fn, l) ==
    IF fn = "simple"
    THEN calculate_centered_position(l.img_width, l.img_height, l.text_width,
                                     l.text_height, l.x_offset, l.y_offset)
    ELSE draw_text_position(l.img_width, l.img_height, l.text_width,
                            l.text_height, l.x_offset, l.y_offset)

PlaceSimple ==
    /\ lay.fn = "none"
    /\ lay' = [lay EXCEPT !.fn = "simple", !.pos = Place("simple", lay)]
    /\ UNCHANGED <<batchVars, font_config, validation>>

PlaceFull ==
    /\ lay.fn = "none"
    /\ lay' = [lay EXCEPT !.fn = "full", !.pos = Place("full", lay)]
    /\ UNCHANGED <<batchVars, font_config, validation>>

\* The same call again with x_offset increased by k.
ShiftX ==
    /\ lay.fn # "none"
    /\ lay.shift = <<0, 0>>
    /\ \E k \in Shifts :
         LET l == [lay EXCEPT !.x_offset = @ + k]
         IN  lay' = [l EXCEPT !.prev = lay.pos, !.shift = <<k, 0>>,
                              !.pos = Place(lay.fn, l)]
    /\ UNCHANGED <<batchVars, font_config, validation>>

\* The same call again with y_offset increased by k.
ShiftY ==
    /\ lay.fn # "none"
    /\ lay.shift = <<0, 0>>
    /\ \E k \in Shifts :
         LET l == [lay EXCEPT !.y_offset = @ + k]
         IN  lay' = [l EXCEPT !.prev = lay.pos, !.shift = <<0, k>>,
                              !.pos = Place(lay.fn, l)]
    /\ UNCHANGED <<batchVars, font_config, validation>>

NextLayout == PlaceSimple \/ PlaceFull \/ ShiftX \/ ShiftY

SpecLayout == InitLayout /\ [][NextLayout]_vars

----------------------------------------------------------------------------
(* Properties of the batch *)

Started == pc \in {"loop", "done"}
Failed(i) == ~calls[i].success
HasName(i) == "Name" \in DOMAIN rows[i]

\* C1: once validation has passed, the rows are attempted one by one in input
\* order, each exactly once; a failed row never ends the loop or exits the
\* process, and the call ends by returning the statistics with every row
\* attempted.
RowIsolation ==
    /\ Len(calls) = index
    /\ index <= Len(rows)
    /\ \A i \in 1..Len(calls) : calls[i].row = i
    /\ (calls # <<>> => pc \in {"loop", "done"} /\ exit_code = 0)
    /\ (pc = "done" => Len(calls) = Len(rows))

\* A batch of two rows has returned although its first row failed.
RowIsolationWitness ==
    /\ pc = "done"
    /\ Len(calls) = 2
    /\ Failed(1)
    /\ calls[2].success

\* C2: total is the number of rows, success + failed is the number of rows
\* processed so far (all of them at the return); each row adds exactly 1 to
\* exactly one of the two counters, and neither counter ever decreases.
StatsCounts ==
    Started =>
        /\ stats.total = Len(rows)
        /\ stats.success + stats.failed = index
        /\ (pc = "done" => stats.success + stats.failed = stats.total)

StatsStep ==
    /\ stats'.success >= stats.success
    /\ stats'.failed >= stats.failed
    /\ (index' # index =>
            \/ stats'.success = stats.success + 1 /\ stats'.failed = stats.failed
            \/ stats'.success = stats.success /\ stats'.failed = stats.failed + 1)
    /\ (index' = index =>
            stats'.success = stats.success /\ stats'.failed = stats.failed)

StatsAccounting == [](StatsCounts) /\ [][StatsStep]_vars

\* A returned batch with a failed and a successful row.
StatsAccountingWitness ==
    /\ pc = "done"
    /\ stats.failed = 1
    /\ stats.success = 1

\* The failure list of the returned statistics; a dict without one lists
\* nothing.
ErrorsOf(st) == IF "errors" \in DOMAIN st THEN st.errors ELSE <<>>

\* C3: the returned statistics list the failed rows: one entry per failed
\* row, in processing order, each with the row's 1-based position and the
\* cause, and none for a successful row.
FailureList ==
    pc = "done" =>
        LET errs == ErrorsOf(stats)
            failedRows == { i \in 1..Len(calls) : Failed(i) }
        IN  /\ Len(errs) = stats.failed
            /\ Len(errs) = Cardinality(failedRows)
            /\ \A k \in 1..Len(errs) :
                 /\ errs[k].row \in failedRows
                 /\ errs[k].msg = calls[errs[k].row].result
                 /\ \A m \in 1..(k - 1) : errs[m].row < errs[k].row

\* C4: with the template missing the call ends in a non-zero exit before the
\* table is loaded: no row attempted, no file written, no output directory
\* created, no statistics returned.
MissingTemplateFatal ==
    (template = "missing" /\ pc # "start") =>
        /\ pc = "exit"
        /\ exit_code # 0
        /\ ~table_loaded
        /\ ~dir_created
        /\ calls = <<>>
        /\ index = 0
        /\ files = <<>>
        /\ stats.success = 0 /\ stats.failed = 0 /\ stats.total = 0

\* A batch over a two-row table has exited for its missing template.
MissingTemplateFatalWitness ==
    /\ template = "missing"
    /\ participants
    /\ Len(rows) = 2
    /\ pc = "exit"
    /\ exit_code = 1

\* C5: with an undecodable template the batch aborts before any row: no row
\* is attempted or counted, and nothing is returned.
UndecodableTemplateAborts ==
    template = "undecodable" =>
        /\ calls = <<>>
        /\ stats.success = 0
        /\ stats.failed = 0
        /\ pc # "done"

\* C6: without a Name column the batch aborts before any row, in both
\* variants: no row is attempted or counted as failed, nothing is returned.
MissingNameColumnFatal ==
    (participants /\ "Name" \notin columns) =>
        /\ calls = <<>>
        /\ stats.failed = 0
        /\ pc # "done"

\* C7: in a table with a Name column, a row with an empty name cell is
\* counted as failed, never as success, and no certificate is written for it.
EmptyNameRowFails ==
    \A i \in 1..Len(calls) :
        (HasName(i) /\ rows[i].Name = NaN) =>
            /\ Failed(i)
            /\ (variant = "full" =>
                    \E k \in 1..Len(stats.errors) : stats.errors[k].row = i)

\* C10: in the full variant the texts drawn are the title-cased name and the
\* two fixed dates; the date cells of a row (present or not) change neither
\* the texts, nor the file name, nor the outcome, and a row that meets no
\* file system error and has a name never fails.
FixedDates == <<<<"25 Mar 22">>, <<"14 Apr 22">>>>
SameName(i, j) ==
    /\ HasName(i) = HasName(j)
    /\ (HasName(i) => rows[i].Name = rows[j].Name)

DatesIgnored ==
    variant = "full" =>
        /\ \A i \in 1..Len(calls) :
             /\ (calls[i].texts # <<>> =>
                    /\ Len(calls[i].texts) = 3
                    /\ SubSeq(calls[i].texts, 2, 3) = FixedDates)
             /\ (calls[i].io = [png |-> "ok", pdf |-> "ok"] =>
                    calls[i].success)
        /\ \A i, j \in 1..Len(calls) :
             (SameName(i, j) /\ calls[i].io = calls[j].io) =>
                 /\ calls[i].texts = calls[j].texts
                 /\ calls[i].result = calls[j].result
                 /\ calls[i].success = calls[j].success

\* Two rows with the same name and different date cells both succeeded.
DatesIgnoredWitness ==
    /\ variant = "full"
    /\ Len(calls) = 2
    /\ columns = {"Name"} \cup DateCols
    /\ rows[1].Name = rows[2].Name
    /\ rows[1].from # rows[2].from
    /\ calls[1].success
    /\ calls[2].success

----------------------------------------------------------------------------
(* Properties of the text placement *)

\* C8: the position is x = floor((W - w) / 2) + dx, y = floor((H + h) / 2) - dy.
TextOriginFloor ==
    lay.fn # "none" =>
        lay.pos = <<((lay.img_width - lay.text_width) \div 2) + lay.x_offset,
                    ((lay.img_height + lay.text_height) \div 2) - lay.y_offset>>

\* C9: increasing dx by k moves x by exactly +k, increasing dy by k moves y
\* by exactly -k.
OffsetShift ==
    lay.shift # <<0, 0>> =>
        /\ lay.pos[1] = lay.prev[1] + lay.shift[1]
        /\ lay.pos[2] = lay.prev[2] - lay.shift[2]

----------------------------------------------------------------------------
(* Properties of the output directory *)

PngFiles == { p \in DOMAIN files : files[p].format = "png" }

\* C11: after a batch the output directory holds one PNG per successful row:
\* at least as many PNG files as successes, and exactly as many when no row
\* failed, also when two rows carry the same name or names differing in case.
OnePngPerParticipant ==
    pc = "done" =>
        /\ Cardinality(PngFiles) >= stats.success
        /\ (stats.failed = 0 => Cardinality(PngFiles) = stats.success)

----------------------------------------------------------------------------
(* The configuration on its own: a FontConfig with values from small sets,  *)
(* config.py run as a script, and a batch over a one-row table.             *)

FontConfigs ==
    { [name_font_size |-> n, date_font_size |-> d, font_color_bgr |-> c,
       font_thickness |-> t] :
        n \in {0, 38}, d \in {-15, 15}, t \in {0, 10},
        c \in { <<68, 102, 253>>, <<-1, 102, 253>>, <<68, 256, 253>>,
                <<0, 0, 255>> } }

InitConfig ==
    /\ variant \in {"simple", "full"}
    /\ participants = TRUE
    /\ template = "ok"
    /\ columns = {"Name"}
    /\ rows \in [1..1 -> RowsOf(columns)]
    /\ pc = "start"
    /\ exit_code = 0
    /\ stats = (IF variant = "simple" THEN StatsSimple ELSE StatsFull)
    /\ index = 0
    /\ dir_created = FALSE
    /\ table_loaded = FALSE
    /\ files = <<>>
    /\ calls = <<>>
    /\ lay = LayIdle
    /\ font_config \in FontConfigs
    /\ validation = "none"

\* config.py as a script: the only call of validate_configuration.
ValidateConfiguration ==
    /\ validation = "none"
    /\ validation' = validate_configuration(font_config)
    /\ UNCHANGED <<batchVars, lay, font_config>>

NextConfig ==
    \/ ValidateConfiguration
    \/ StartSimple
    \/ StartFull
    \/ RowSimple
    \/ RowFull
    \/ ReturnStats

SpecConfig == InitConfig /\ [][NextConfig]_vars

ValidStyle(fc) ==
    /\ fc.name_font_size > 0
    /\ fc.date_font_size > 0
    /\ fc.font_thickness > 0
    /\ \A k \in 1..3 : fc.font_color_bgr[k] \in 0..255

\* The part of C12 about validate_configuration alone: it raises ValueError
\* for exactly the invalid style values and returns True for every other one.
ValidationExact ==
    validation # "none" =>
        /\ (validation = "ValueError" <=> ~ValidStyle(font_config))
        /\ (validation = "True" <=> ValidStyle(font_config))

\* C12: validate_configuration is exact, and with an invalid style value the
\* batch is rejected at startup: no row is processed, no certificate written.
EagerValidation ==
    /\ ValidationExact
    /\ (~ValidStyle(font_config) => calls = <<>> /\ files = <<>>)

----------------------------------------------------------------------------
(* Properties of the images *)

\* The texts one row draws on a fresh template.
ExpectedTexts(i) ==
    IF variant = "simple" THEN <<title(str(rows[i].Name))>>
    ELSE <<title(str(rows[i].Name))>> \o FixedDates

FreshTemplateInv ==
    /\ \A i \in 1..Len(calls) :
         calls[i].texts # <<>> => calls[i].texts = ExpectedTexts(i)
    /\ \A p \in DOMAIN files :
         files[p].format # "empty" =>
             \E i \in 1..Len(calls) :
                 /\ HasName(i)
                 /\ TextsOf(files[p].image) = ExpectedTexts(i)

----------------------------------------------------------------------------
(* Properties of the PNG and PDF of a row *)

\* The PNG path beside a PDF path, and the paths of row i in the full variant.
PngBeside(p) == [p EXCEPT ![Len(p)] = ".png"]
RowBase(i) == CERTIFICATE_PREFIX \o <<"_">> \o title(str(rows[i].Name))
RowPng(i) == path_join(OUTPUT_DIRECTORY, RowBase(i) \o <<".png">>)
RowPdf(i) == path_join(OUTPUT_DIRECTORY, RowBase(i) \o <<".pdf">>)
BothWritten == [png |-> "ok", pdf |-> "ok"]

PngThenPdfInv ==
    /\ \A p \in DOMAIN files :
         files[p].format # "png" =>
             /\ variant = "full"
             /\ PngBeside(p) \in PngFiles
    /\ \A i \in 1..Len(calls) :
         /\ (variant = "full" => (calls[i].success <=> calls[i].io = BothWritten))
         /\ (variant = "full" /\ calls[i].io.png = "ok" => RowPng(i) \in PngFiles)
         /\ (variant = "full" /\ calls[i].success =>
                /\ calls[i].result = RowBase(i)
                /\ RowPdf(i) \in DOMAIN files)
    /\ (variant = "full" /\ calls # <<>> /\ calls[Len(calls)].success =>
            LET i == Len(calls)
            IN  /\ files[RowPdf(i)].format = "pdf"
                /\ files[RowPdf(i)].image = files[RowPng(i)].image
                /\ TextsOf(files[RowPdf(i)].image) = calls[i].texts)

\* A row whose PNG write fails writes nothing, and a row writes a file that
\* is not a PNG only after its own PNG.
PngThenPdfStep ==
    (index' # index /\ variant = "full") =>
        LET i == Len(calls')
        IN  /\ (calls'[i].io.png # "ok" => files' = files)
            /\ (calls'[i].io.png = "ok" =>
                    /\ RowPng(i) \in DOMAIN files'
                    /\ TextsOf(files'[RowPng(i)].image) = calls'[i].texts)

\* C14: in the full variant a row's PDF is made from the PNG just written for
\* that row and only after that write succeeded; a row is a success only if
\* both were written, and a file that is not a PNG always has its PNG beside
\* it (a failed PDF step leaves the PNG while the row counts as failed). The
\* simple variant writes PNG files only.
PngThenPdf == [](PngThenPdfInv) /\ [][PngThenPdfStep]_vars

\* A first row with PNG and PDF, then a row whose PDF step failed and whose
\* PNG stays on disk.
PngThenPdfWitness ==
    /\ variant = "full"
    /\ Len(calls) = 2
    /\ calls[1].success
    /\ calls[2].io = [png |-> "ok", pdf |-> "open_fail"]
    /\ Failed(2)
    /\ Cardinality(PngFiles) = 2
    /\ Cardinality(DOMAIN files) = 3

====
